---- MODULE Spec2Model ----
(***************************************************************************)
(* Model of scripts/compare.js: main drives captureScreenshots (viewport   *)
(* by viewport, page by page, with runActions as the action interpreter),  *)
(* then compareImages over the captures, then the summary and exit code.   *)
(*                                                                         *)
(* Percentages are integers in hundredths of a percent ("0.50" is 50).     *)
(* Names are sequences of one-character strings so that normalizeName can  *)
(* be computed character by character.                                     *)
(***************************************************************************)
EXTENDS Integers, Sequences, FiniteSets, TLC

\* ---------------------------------------------------------------- bounds
MaxViewports == 2
MaxPages == 2
\* the longest action list of the interpreter's own runs
MaxActions == 2
\* the longest page name and viewport name of the naming runs
MaxNameLen == 2

\* ------------------------------------------------------------- constants
\* the value of an absent property / variable
Undefined == "undefined"

\* faulty variant: one retry more
RetryLimitRaised == 3 + 1

\* let retries = 3
RetryLimit == 3

\* DEFAULT_CONFIG.failureThreshold (0.5), in hundredths of a percent
DefaultFailureThreshold == 50

\* failureThreshold: 1.0, the value the README recommends
RecommendedFailureThreshold == 100

\* the URL of a freshly created page
BlankUrl == "about:blank"

\* ------------------------------------------------------------ characters
UpperChars ==
  <<"A","B","C","D","E","F","G","H","I","J","K","L","M",
    "N","O","P","Q","R","S","T","U","V","W","X","Y","Z">>

LowerChars ==
  <<"a","b","c","d","e","f","g","h","i","j","k","l","m",
    "n","o","p","q","r","s","t","u","v","w","x","y","z">>

DigitChars == <<"0","1","2","3","4","5","6","7","8","9">>

Range(s) == { s[i] : i \in DOMAIN s }

\* the lower-case letter of each upper-case letter
LowerOf ==
  [c \in Range(UpperChars) |->
     LowerChars[CHOOSE i \in DOMAIN UpperChars : UpperChars[i] = c]]

\* String.prototype.toLowerCase, one character
ToLowerChar(c) == IF c \in DOMAIN LowerOf THEN LowerOf[c] ELSE c

\* the characters of the class [a-z0-9]
AlnumChars == Range(LowerChars) \cup Range(DigitChars)

IsAlnum(c) == c \in AlnumChars

RECURSIVE CollapseRuns(_, _)
\* replaceAll(/[^a-z0-9]+/g, "-"): inRun says the previous character was
\* part of a run that has already been replaced
CollapseRuns(s, inRun) ==
  IF s = <<>> THEN <<>>
  ELSE IF IsAlnum(Head(s)) THEN <<Head(s)>> \o CollapseRuns(Tail(s), FALSE)
  ELSE IF inRun THEN CollapseRuns(Tail(s), TRUE)
  ELSE <<"-">> \o CollapseRuns(Tail(s), TRUE)

\* faulty variant: only the hyphen at the start is removed
TrimLeadingHyphen(s) ==
  IF s # <<>> /\ Head(s) = "-" THEN Tail(s) ELSE s

\* replaceAll(/^-|-$/g, ""): one hyphen at the start and one at the end
TrimHyphens(s) ==
  LET a == IF s # <<>> /\ Head(s) = "-" THEN Tail(s) ELSE s
  IN  IF a # <<>> /\ a[Len(a)] = "-" THEN SubSeq(a, 1, Len(a) - 1) ELSE a

normalizeName(value) ==
  TrimHyphens(CollapseRuns([i \in DOMAIN value |-> ToLowerChar(value[i])], FALSE))

\* ------------------------------------------------------------ the inputs
\* config.viewports: a prefix of this list; the first is DEFAULT_CONFIG's
ViewportPool ==
  << [name |-> <<"d","e","s","k","t","o","p">>, width |-> 1440, height |-> 900],
     [name |-> <<"m","o","b","i","l","e">>,     width |-> 390,  height |-> 844],
     [name |-> <<"t","a","b","l","e","t">>,     width |-> 768,  height |-> 1024],
     [name |-> <<"x","l">>,                     width |-> 1920, height |-> 1080] >>

Min(a, b) == IF a < b THEN a ELSE b

ViewportLists ==
  { SubSeq(ViewportPool, 1, n) : n \in 1..Min(MaxViewports, Len(ViewportPool)) }

\* The files of the designs directory: the raster size of each file that
\* exists. A path outside the domain is a file that does not exist.
DesignFiles ==
  [p \in {"designs/dashboard.png", "designs/checkout-desktop.png",
          "designs/cart-mobile.png"} |->
     CASE p = "designs/dashboard.png"        -> [width |-> 1440, height |-> 900]
       [] p = "designs/checkout-desktop.png" -> [width |-> 1440, height |-> 900]
       [] p = "designs/cart-mobile.png"      -> [width |-> 390,  height |-> 1250]]

\* the height of the rendered document: a fullPage screenshot is as wide as
\* the viewport and as high as the document (390x1250 on the 390x844 viewport)
DocumentHeight(viewport) ==
  IF viewport.height < 900 THEN 1250 ELSE viewport.height

\* an action of a configuration: the properties the interpreter reads. An
\* absent array property is the empty set, a present one the set of that array.
Action(type, url, value, values) ==
  [type |-> type, url |-> url, value |-> value, values |-> values,
   waitForNavigation |-> FALSE]

NoArray == {}

GotoLogin   == Action("goto", "/login", Undefined, NoArray)
ClickSubmit == Action("click", Undefined, Undefined, NoArray)
WaitForm    == Action("waitForSelector", Undefined, Undefined, NoArray)
SelectOne   == Action("select", Undefined, "en", NoArray)
SelectNone  == Action("select", Undefined, Undefined, NoArray)
Hover       == Action("hover", Undefined, Undefined, NoArray)
NoType      == Action(Undefined, Undefined, Undefined, NoArray)
TypeEmail   == Action("type", Undefined, Undefined, NoArray)
WaitXPath   == Action("waitForXPath", Undefined, Undefined, NoArray)
\* a select with both properties, and one whose value is the empty string
SelectBoth  == Action("select", Undefined, "en", { <<"en", "fr">> })
SelectBlank == Action("select", Undefined, "", NoArray)

\* a click with waitForNavigation: true
ClickAndWait == [ClickSubmit EXCEPT !.waitForNavigation = TRUE]

\* the URL a click that navigates leads to
ClickTarget == "/welcome"

\* one action of each kind the interpreter tells apart
ActionPool ==
  { GotoLogin, ClickSubmit, TypeEmail, WaitForm, WaitXPath, SelectOne,
    SelectBoth, SelectNone, SelectBlank, Hover, NoType }

\* the lists of at most n actions of the pool
ActionLists(n) == UNION { [1..k -> ActionPool] : k \in 0..n }

\* config.globalActions; an absent list and an empty one are both <<>>, which
\* runActions treats alike
GlobalActionLists ==
  { <<>>, <<GotoLogin, ClickSubmit>>, <<ClickSubmit, Hover, GotoLogin>> }

ViewportNames == { ViewportPool[i].name : i \in DOMAIN ViewportPool }

\* entry.designImages, read as designImages?.[name]: an absent mapping and a
\* mapping without the key both read as undefined
NoMapping == [v \in ViewportNames |-> Undefined]

Mapping(desktop, mobile) ==
  [v \in ViewportNames |->
     IF v = ViewportPool[1].name THEN desktop
     ELSE IF v = ViewportPool[2].name THEN mobile
     ELSE Undefined]

\* config.pages entries
PageSpecs ==
  { \* legacy single reference, no actions
    [name |-> <<"D","a","s","h","b","o","a","r","d">>, path |-> "/dashboard",
     designImages |-> NoMapping, designImage |-> "designs/dashboard.png",
     actions |-> <<>>],
    \* a mapping that names the desktop viewport only
    [name |-> <<"C","h","e","c","k","o","u","t">>, path |-> "/checkout",
     designImages |-> Mapping("designs/checkout-desktop.png", Undefined),
     designImage |-> Undefined,
     actions |-> <<WaitForm, SelectOne>>],
    \* no reference of any kind
    [name |-> <<"H","o","m","e"," ","P","a","g","e">>, path |-> "/login",
     designImages |-> NoMapping, designImage |-> Undefined,
     actions |-> <<>>],
    \* a mapping and a legacy reference; the desktop file does not exist
    [name |-> <<"C","a","r","t">>, path |-> "/cart",
     designImages |-> Mapping("designs/cart-desktop.png", "designs/cart-mobile.png"),
     designImage |-> "designs/dashboard.png",
     actions |-> <<ClickSubmit>>],
    \* actions the interpreter rejects
    [name |-> <<"A","d","m","i","n">>, path |-> "/admin",
     designImages |-> NoMapping, designImage |-> "designs/dashboard.png",
     actions |-> <<ClickSubmit, NoType, ClickSubmit>>] }

RECURSIVE DistinctSeqs(_, _)
\* the sequences of distinct elements of S of length at most n
DistinctSeqs(S, n) ==
  IF n = 0 THEN { <<>> }
  ELSE LET shorter == DistinctSeqs(S, n - 1)
       IN  shorter \cup
             UNION { { Append(s, x) : x \in S \ Range(s) } : s \in shorter }

\* config.pages: no page is listed twice
PageLists == DistinctSeqs(PageSpecs, MaxPages)

FailureThresholds == { DefaultFailureThreshold, RecommendedFailureThreshold }

Configs ==
  [viewports : ViewportLists, pages : PageLists,
   globalActions : GlobalActionLists, failureThreshold : FailureThresholds]

\* a page with no reference that carries the given actions
ProbePage(list) ==
  [name |-> <<"P","r","o","b","e">>, path |-> "/probe",
   designImages |-> NoMapping, designImage |-> Undefined, actions |-> list]

DashboardPage == CHOOSE p \in PageSpecs : p.path = "/dashboard"

\* configurations that exercise the interpreter: one viewport, the dashboard
\* page, then a page that carries the list, or else the list as globalActions
ActionConfigs ==
  { [viewports |-> << ViewportPool[1] >>,
     pages |-> << DashboardPage, ProbePage(IF global THEN <<>> ELSE list) >>,
     globalActions |-> IF global THEN list ELSE <<>>,
     failureThreshold |-> DefaultFailureThreshold] :
       list \in ActionLists(MaxActions), global \in BOOLEAN }

\* the actions of the runs with navigation-aware clicks: the click with
\* waitForNavigation, the other cases with a retry loop, and one action of
\* each other kind of step
ClickPool ==
  { ClickAndWait, ClickSubmit, TypeEmail, WaitForm, WaitXPath, GotoLogin,
    SelectOne, NoType }

\* configurations like ActionConfigs, over the lists of ClickPool
ClickConfigs ==
  { [viewports |-> << ViewportPool[1] >>,
     pages |-> << DashboardPage, ProbePage(IF global THEN <<>> ELSE list) >>,
     globalActions |-> IF global THEN list ELSE <<>>,
     failureThreshold |-> DefaultFailureThreshold] :
       list \in UNION { [1..k -> ClickPool] : k \in 0..MaxActions },
       global \in BOOLEAN }

\* the characters names are made of: a capital, a small letter, a digit, a
\* hyphen and a space
NameChars == { "D", "e", "7", "-", " " }

\* the names of at most n characters
Names(n) == UNION { [1..k -> NameChars] : k \in 0..n }

\* the counts of differing pixels pixelmatch is let to report on rasters of
\* totalPixels: none, a few, and a large part (386,598 of the 487,500 pixels
\* of a 390x1250 capture, 6,480 elsewhere)
PixelDiffs(totalPixels) ==
  { 0, 17, IF totalPixels = 487500 THEN 386598 ELSE 6480 }

\* ------------------------------------------------------- pure operations
RECURSIVE ScaledDiv(_, _, _)
\* <<floor(d * 10^digits / t), remainder>>, one decimal digit at a time
ScaledDiv(d, t, digits) ==
  IF digits = 0 THEN << d \div t, d % t >>
  ELSE LET prev == ScaledDiv(d, t, digits - 1)
       IN  << prev[1] * 10 + (prev[2] * 10) \div t, (prev[2] * 10) % t >>

\* faulty variant: the ratio is not multiplied by 100
DiffPercentageOfRatio(diffPixels, totalPixels) ==
  LET qr == ScaledDiv(diffPixels, totalPixels, 2)
  IN  IF 2 * qr[2] >= totalPixels THEN qr[1] + 1 ELSE qr[1]

\* ((diffPixels / totalPixels) * 100).toFixed(2) read back by parseFloat, in
\* hundredths: the nearest hundredth, the larger one on a tie
DiffPercentage(diffPixels, totalPixels) ==
  LET qr == ScaledDiv(diffPixels, totalPixels, 4)
  IN  IF 2 * qr[2] >= totalPixels THEN qr[1] + 1 ELSE qr[1]

\* faulty variant: the ratio, not the percentage, is compared with the threshold
IsFailureOfRatio(diffPercent, failureThreshold) ==
  diffPercent \div 100 > failureThreshold

\* faulty variant: a difference equal to the threshold fails
IsFailureInclusive(diffPercent, failureThreshold) ==
  diffPercent >= failureThreshold

\* const isFailure = diffPercent > config.failureThreshold
IsFailure(diffPercent, failureThreshold) == diffPercent > failureThreshold

\* faulty variant: a viewport the mapping omits borrows the first viewport's entry
ResolveDesignImageBorrowing(entry, viewportName) ==
  IF entry.designImages[viewportName] # Undefined
    THEN entry.designImages[viewportName]
    ELSE IF entry.designImages[ViewportPool[1].name] # Undefined
      THEN entry.designImages[ViewportPool[1].name]
      ELSE entry.designImage

\* faulty variant: the legacy reference wins over the mapping
ResolveDesignImageLegacyFirst(entry, viewportName) ==
  IF entry.designImage # Undefined
    THEN entry.designImage
    ELSE entry.designImages[viewportName]

\* entry.designImages?.[viewport.name] ?? entry.designImage
ResolveDesignImage(entry, viewportName) ==
  IF entry.designImages[viewportName] # Undefined
    THEN entry.designImages[viewportName]
    ELSE entry.designImage

\* !entry.designImage is false: the reference is neither absent nor empty
HasDesignImage(entry) == entry.designImage \notin { Undefined, "" }

\* faulty variant: the existence of the file is not checked
ExistsSyncUnchecked(designPath) == TRUE

\* existsSync(designPath)
ExistsSync(designPath) == designPath \in DOMAIN DesignFiles

\* faulty variant: width and height are passed in the wrong order
ResizeImageSwapped(image, width, height) == [width |-> height, height |-> width]

\* sharp(imagePath).resize(width, height, {fit: 'contain', background}): the
\* image is scaled to fit and the canvas padded to width x height
ResizeImage(image, width, height) == [width |-> width, height |-> height]

\* the length of a PNG's data buffer: 4 bytes per pixel
DataLength(image) == image.width * image.height * 4

\* pixelmatch throws 'Image sizes do not match' unless the buffers agree
PixelmatchAccepts(img1, img2, output) ==
  DataLength(img1) = DataLength(img2) /\ DataLength(output) = DataLength(img1)

\* faulty variant: the name and viewport of the first viewport are recorded
CaptureResultOfFirstViewport(entry, viewport) ==
  [name |-> normalizeName(entry.name \o <<"-">> \o ViewportPool[1].name),
   viewport |-> ViewportPool[1].name,
   url |-> entry.path,
   screenshotPath |-> normalizeName(entry.name \o <<"-">> \o ViewportPool[1].name),
   designImage |-> ResolveDesignImage(entry, viewport.name)]

\* the result record of one capture
CaptureResult(entry, viewport) ==
  [name |-> normalizeName(entry.name \o <<"-">> \o viewport.name),
   viewport |-> viewport.name,
   url |-> entry.path,
   screenshotPath |-> normalizeName(entry.name \o <<"-">> \o viewport.name),
   designImage |-> ResolveDesignImage(entry, viewport.name)]

\* the raster page.screenshot({fullPage: true}) writes
ScreenshotImage(viewport) ==
  [width |-> viewport.width, height |-> DocumentHeight(viewport)]

\* faulty variant: the flag is not consulted
GlobalActionsAlwaysDue(executedFlag) == TRUE

\* if (!globalActionsExecuted)
GlobalActionsDue(executedFlag) == ~executedFlag

\* faulty variant: any mismatch fails the run
ExitCodeForMismatches(failureCount, mismatchCount) ==
  IF mismatchCount > 0 THEN 1 ELSE 0

\* exitCode after the summary: 1 exactly when result.failures > 0
ExitCodeFor(failureCount, mismatchCount) == IF failureCount > 0 THEN 1 ELSE 0

\* the case labels of the switch in runActions
SupportedTypes ==
  { "goto", "reload", "click", "type", "press", "select", "waitForSelector",
    "waitForXPath", "clickXPath", "waitForTimeout", "waitForNavigation",
    "setCookie", "setLocalStorage" }

\* faulty variant: the default case does nothing
IsSupportedAlways(type) == TRUE

\* the switch reaches a case other than default
IsSupported(type) == type \in SupportedTypes

\* faulty variant: the check of the type is left out
MissingTypeIgnored(action) == FALSE

\* !action || !action.type
MissingType(action) == action.type \in { Undefined, "" }

\* faulty variant: click and type retry on a torn-down session only
RetryMessagesClosedOnly(type) ==
  IF type \in { "click", "type", "waitForSelector", "waitForXPath" }
    THEN { "closed" } ELSE {}

\* faulty variant: the wait actions retry on the messages click retries on
RetryMessagesAlike(type) ==
  IF type \in { "click", "type", "waitForSelector", "waitForXPath" }
    THEN { "closed", "notFound" } ELSE {}

\* faulty variant: every click waits for a navigation
WaitsForNavigationAlways(action) == TRUE

\* if (action.waitForNavigation)
WaitsForNavigation(action) == action.waitForNavigation

\* the waits of the race: page.waitForURL and page.waitForLoadState
RaceWaits == { "url", "idle" }

\* if (currentURL !== url)
\* faulty variant: page.goto is issued for every page, wherever the page is
NeedsNavigationAlways(currentURL, url) == TRUE

NeedsNavigation(currentURL, url) == currentURL # url

\* the cases with a retry loop, and the error messages each retries on
RetryMessages(type) ==
  CASE type \in { "click", "type" } -> { "closed", "notFound" }
    [] type \in { "waitForSelector", "waitForXPath" } -> { "closed" }
    [] OTHER -> {}

HasRetryLoop(type) ==
  type \in { "click", "type", "waitForSelector", "waitForXPath" }

\* what a browser primitive can answer: success, or an error whose message
\* is 'Target page, context or browser has been closed', 'Unable to find
\* element', or anything else
Answers == { "ok", "closed", "notFound", "other" }

RECURSIVE TotalDiff(_)
\* reduce((sum, r) => sum + parseFloat(r.diffPercentage), 0), in hundredths
TotalDiff(outcomes) ==
  IF outcomes = <<>> THEN 0
  ELSE outcomes[1].diffPercentage + TotalDiff(Tail(outcomes))

\* faulty variant: the mean is taken over the outcomes that differ
AvgDiffOfMismatches(outcomes) ==
  LET differing == SelectSeq(outcomes, LAMBDA r : ~r.match)
  IN  IF differing = <<>> THEN { 0 }
      ELSE { (2 * TotalDiff(differing) + Len(differing)) \div (2 * Len(differing)) }

\* (totalDiff / length).toFixed(2), in hundredths: the values toFixed can
\* give. The quotient is rounded to the nearest hundredth; when the mean of
\* the decimal values lies exactly between two hundredths, the binary quotient
\* lies just above or just below it, and toFixed gives the upper or the lower
\* neighbour accordingly.
AvgDiff(outcomes) ==
  LET total == TotalDiff(outcomes)
      n == Len(outcomes)
      nearest == (2 * total + n) \div (2 * n)
  IN  IF (2 * total + n) % (2 * n) = 0 THEN { nearest - 1, nearest }
      ELSE { nearest }

\* Math.max(...map(r => parseFloat(r.diffPercentage))).toFixed(2), in hundredths
MaxDiff(outcomes) ==
  CHOOSE m \in { outcomes[o].diffPercentage : o \in DOMAIN outcomes } :
    \A o \in DOMAIN outcomes : outcomes[o].diffPercentage <= m

\* ------------------------------------------------------------- the state
VARIABLES
  config,                 \* the resolved configuration
  pc,                     \* where main is
  browserOpen,            \* chromium.launch() has run and close() has not
  exitCode,               \* main's local exitCode
  processExitCode,        \* process.exitCode
  thrown,                 \* the error in flight, or Undefined
  vpIdx, pgIdx,           \* the loops of captureScreenshots (1-based)
  globalActionsExecuted,
  viewportSize,           \* the page's viewport, <<width, height>>
  pageUrl,                \* page.url()
  results,                \* captureScreenshots' results array
  screenshots,            \* the files of screenshotsDir: <<path, image>>
  shotCount,              \* calls of page.screenshot that succeeded
  globalRuns,             \* calls of runActions on config.globalActions
  caller,                 \* who called runActions: "global" or "page"
  actions, actIdx,        \* runActions' list and position (1-based)
  retries,                \* the retry counter of the current action
  executed,               \* indices whose browser primitive was invoked
  cmpIdx,                 \* the loop of compareImages (1-based)
  mismatches, failures, warnings, comparisonResults,
  diffFiles,              \* the files of diffsDir
  diffCalls,              \* the arguments of each pixelmatch call
  backoffs,               \* waitForTimeout(500) calls of the current retry loop
  lastError,              \* the message the current retry loop caught last
  selectCalls,            \* the calls of page.selectOption of this runActions
  stats,                  \* << avgDiff, maxDiff >> once main has computed them
  pageName, viewportName, \* the arguments of a composite name
  normalized,             \* normalizeName of the composite name
  renormalized,           \* normalizeName of that result
  phase,                  \* where the current click attempt is
  clicks,                 \* page.click calls of the current action that succeeded
  pendingWaits,           \* the waits of a race that have not settled yet
  navigations             \* page.goto calls of captureScreenshots

vars ==
  << config, pc, browserOpen, exitCode, processExitCode, thrown, vpIdx, pgIdx,
     globalActionsExecuted, viewportSize, pageUrl, results, screenshots,
     shotCount, globalRuns, caller, actions, actIdx, retries, executed, cmpIdx,
     mismatches, failures, warnings, comparisonResults, diffFiles, diffCalls,
     backoffs, lastError, selectCalls, stats, pageName, viewportName,
     normalized, renormalized, phase, clicks, pendingWaits, navigations >>

mainVars == << browserOpen, exitCode, processExitCode >>
captureVars ==
  << vpIdx, pgIdx, globalActionsExecuted, viewportSize, results, screenshots,
     shotCount, globalRuns >>
actionVars ==
  << caller, actions, actIdx, retries, executed, backoffs, lastError,
     selectCalls, phase, clicks >>
nameVars == << pageName, viewportName, normalized, renormalized >>
compareVars ==
  << cmpIdx, mismatches, failures, warnings, comparisonResults, diffFiles,
     diffCalls >>

\* nothing has run yet
Fresh ==
  /\ browserOpen = FALSE
  /\ exitCode = 0
  /\ processExitCode = 0
  /\ thrown = Undefined
  /\ vpIdx = 0 /\ pgIdx = 0
  /\ globalActionsExecuted = FALSE
  /\ viewportSize = << 0, 0 >>
  /\ pageUrl = BlankUrl
  /\ results = <<>>
  /\ screenshots = {}
  /\ shotCount = 0
  /\ globalRuns = 0
  /\ caller = Undefined
  /\ actions = <<>> /\ actIdx = 0
  /\ retries = RetryLimit
  /\ executed = <<>>
  /\ cmpIdx = 0
  /\ mismatches = 0 /\ failures = 0
  /\ warnings = <<>> /\ comparisonResults = <<>>
  /\ diffFiles = {}
  /\ diffCalls = <<>>
  /\ backoffs = 0
  /\ lastError = Undefined
  /\ selectCalls = <<>>
  /\ stats = <<>>
  /\ phase = "attempt"
  /\ clicks = 0
  /\ pendingWaits = {}
  /\ navigations = 0

\* no composite name is being computed
NoNames ==
  /\ pageName = <<>> /\ viewportName = <<>>
  /\ normalized = <<>> /\ renormalized = <<>>

Init ==
  /\ config \in Configs
  /\ pc = "main"
  /\ Fresh
  /\ NoNames

\* ------------------------------------------------------------------ main
\* main up to "let exitCode = 0": the browser is launched
Launch ==
  /\ pc = "main"
  /\ browserOpen' = TRUE
  /\ exitCode' = 0
  /\ pc' = "capture"
  /\ UNCHANGED << config, stats, nameVars, pendingWaits, navigations, processExitCode, thrown, pageUrl >>
  /\ UNCHANGED << captureVars, actionVars, compareVars >>

\* faulty variant: the error is noted and the loop goes on
ThrowAndGoOn(message) ==
  /\ thrown' = message
  /\ pc' = pc

\* an error leaves the try block of main with the given message
Throw(message) ==
  /\ thrown' = message
  /\ pc' = "finally"

\* ---------------------------------------------------- captureScreenshots
\* captureScreenshots up to the viewport loop: context and page are created
CaptureBegin ==
  /\ pc = "capture"
  /\ results' = <<>>
  /\ globalActionsExecuted' = FALSE
  /\ vpIdx' = 1
  /\ pc' = "viewport"
  /\ UNCHANGED << config, stats, nameVars, pendingWaits, navigations, mainVars, thrown, pageUrl, pgIdx, viewportSize,
                  screenshots, shotCount, globalRuns >>
  /\ UNCHANGED << actionVars, compareVars >>

\* runActions(page, list, baseUrl) is entered
CallRunActions(who, list) ==
  /\ caller' = who
  /\ actions' = list
  /\ actIdx' = 1
  /\ retries' = RetryLimit
  /\ executed' = <<>>
  /\ backoffs' = 0
  /\ lastError' = Undefined
  /\ selectCalls' = <<>>
  /\ phase' = "attempt"
  /\ clicks' = 0
  /\ pc' = "runActions"

\* one turn of the viewport loop up to the call of the global actions
ViewportBegin ==
  /\ pc = "viewport"
  /\ vpIdx <= Len(config.viewports)
  /\ viewportSize' = << config.viewports[vpIdx].width, config.viewports[vpIdx].height >>
  /\ IF GlobalActionsDue(globalActionsExecuted)
       THEN /\ CallRunActions("global", config.globalActions)
            /\ globalRuns' = globalRuns + 1
            /\ UNCHANGED pgIdx
       ELSE /\ pgIdx' = 1
            /\ pc' = "page"
            /\ UNCHANGED << actionVars, globalRuns >>
  /\ UNCHANGED << config, stats, nameVars, pendingWaits, navigations, mainVars, thrown, pageUrl, vpIdx, globalActionsExecuted,
                  results, screenshots, shotCount >>
  /\ UNCHANGED compareVars

\* the viewport loop is over: page and context are closed, compareImages is
\* entered with the captures
CaptureEnd ==
  /\ pc = "viewport"
  /\ vpIdx > Len(config.viewports)
  /\ pc' = "compare"
  /\ cmpIdx' = 1
  /\ mismatches' = 0 /\ failures' = 0
  /\ warnings' = <<>> /\ comparisonResults' = <<>>
  /\ UNCHANGED << config, stats, nameVars, pendingWaits, navigations, mainVars, thrown, pageUrl, captureVars, actionVars,
                  diffFiles, diffCalls >>

\* one turn of the page loop up to the call of the page's actions: the
\* navigation, skipped when the page is already at the URL
PageBegin ==
  /\ pc = "page"
  /\ pgIdx <= Len(config.pages)
  /\ LET entry == config.pages[pgIdx]
         url == entry.path
     IN  \/ /\ NeedsNavigation(pageUrl, url)
            /\ navigations' = navigations + 1
            /\ \E answer \in { "ok", "other" } :
                 IF answer = "ok"
                   THEN /\ pageUrl' = url
                        /\ CallRunActions("page", entry.actions)
                        /\ UNCHANGED thrown
                   ELSE /\ Throw(answer)
                        /\ UNCHANGED << pageUrl, actionVars >>
         \/ /\ ~NeedsNavigation(pageUrl, url)
            /\ CallRunActions("page", entry.actions)
            /\ UNCHANGED << pageUrl, thrown, navigations >>
  /\ UNCHANGED << config, stats, nameVars, pendingWaits, mainVars, captureVars,
                  compareVars >>

\* the page loop of one viewport is over
PagesEnd ==
  /\ pc = "page"
  /\ pgIdx > Len(config.pages)
  /\ vpIdx' = vpIdx + 1
  /\ pc' = "viewport"
  /\ UNCHANGED << config, stats, nameVars, pendingWaits, navigations, mainVars, thrown, pageUrl, pgIdx, globalActionsExecuted,
                  viewportSize, results, screenshots, shotCount, globalRuns >>
  /\ UNCHANGED << actionVars, compareVars >>

\* page.screenshot and results.push, after the page's actions
Screenshot ==
  /\ pc = "screenshot"
  /\ LET entry == config.pages[pgIdx]
         viewport == config.viewports[vpIdx]
         result == CaptureResult(entry, viewport)
     IN  \E answer \in { "ok", "other" } :
           IF answer = "ok"
             THEN /\ screenshots' =
                       { f \in screenshots : f[1] # result.screenshotPath }
                         \cup { << result.screenshotPath, ScreenshotImage(viewport) >> }
                  /\ shotCount' = shotCount + 1
                  /\ results' = Append(results, result)
                  /\ pgIdx' = pgIdx + 1
                  /\ pc' = "page"
                  /\ UNCHANGED thrown
             ELSE /\ Throw(answer)
                  /\ UNCHANGED << screenshots, shotCount, results, pgIdx >>
  /\ UNCHANGED << config, stats, nameVars, pendingWaits, navigations, mainVars, pageUrl, vpIdx, globalActionsExecuted,
                  viewportSize, globalRuns >>
  /\ UNCHANGED << actionVars, compareVars >>

\* ------------------------------------------------------------ runActions
\* the for loop is over (or the list was empty): runActions returns to the
\* statement after its call
RunActionsReturn ==
  /\ pc = "runActions"
  /\ actIdx > Len(actions)
  /\ executed' = <<>>
  /\ selectCalls' = <<>>
  /\ IF caller = "global"
       THEN /\ globalActionsExecuted' = TRUE
            /\ pgIdx' = 1
            /\ pc' = "page"
       ELSE /\ pc' = "screenshot"
            /\ UNCHANGED << globalActionsExecuted, pgIdx >>
  /\ UNCHANGED << config, stats, nameVars, pendingWaits, navigations, mainVars, thrown, pageUrl, vpIdx, viewportSize, results,
                  screenshots, shotCount, globalRuns, caller, actions, actIdx,
                  retries, backoffs, lastError, phase, clicks >>
  /\ UNCHANGED compareVars

\* an action without a type, or with a type the switch has no case for
ActionRejected ==
  /\ pc = "runActions"
  /\ actIdx <= Len(actions)
  /\ LET action == actions[actIdx]
     IN  \/ /\ MissingType(action)
            /\ Throw("Action is missing a type.")
         \/ /\ ~MissingType(action)
            /\ ~IsSupported(action.type)
            /\ Throw("Unsupported action type")
  /\ UNCHANGED << config, stats, nameVars, pendingWaits, navigations, mainVars, pageUrl, captureVars, actionVars, compareVars >>

\* a case that calls one browser primitive once, with no retry loop
ActionSimple ==
  /\ pc = "runActions"
  /\ actIdx <= Len(actions)
  /\ LET action == actions[actIdx]
     IN  /\ ~MissingType(action)
         /\ IsSupported(action.type)
         /\ ~HasRetryLoop(action.type)
         /\ action.type # "select"
         /\ executed' = Append(executed, actIdx)
         /\ \E answer \in { "ok", "other" } :
              IF answer = "ok"
                THEN /\ pageUrl' = IF action.type = "goto" THEN action.url ELSE pageUrl
                     /\ actIdx' = actIdx + 1
                     /\ UNCHANGED << pc, thrown >>
                ELSE /\ Throw(answer)
                     /\ UNCHANGED << pageUrl, actIdx >>
  /\ UNCHANGED << config, stats, nameVars, pendingWaits, navigations, mainVars, captureVars, caller,
                  actions, retries, backoffs, lastError, selectCalls, phase,
                  clicks, compareVars >>

\* case "select": a list of values, else a single value, else an error
ActionSelect ==
  /\ pc = "runActions"
  /\ actIdx <= Len(actions)
  /\ LET action == actions[actIdx]
     IN  /\ action.type = "select"
         /\ IF action.values # NoArray \/ action.value \notin { Undefined, "" }
              THEN /\ executed' = Append(executed, actIdx)
                   /\ selectCalls' = Append(selectCalls,
                         [index |-> actIdx,
                          by |-> IF action.values # NoArray
                                   THEN "values" ELSE "value"])
                   /\ \E answer \in { "ok", "other" } :
                        IF answer = "ok"
                          THEN /\ actIdx' = actIdx + 1
                               /\ UNCHANGED << pc, thrown >>
                          ELSE /\ Throw(answer)
                               /\ UNCHANGED actIdx
              ELSE /\ Throw("Select action missing value(s)")
                   /\ UNCHANGED << executed, selectCalls, actIdx >>
  /\ UNCHANGED << config, stats, nameVars, pendingWaits, navigations, mainVars, pageUrl, captureVars,
                  caller, actions, retries, backoffs, lastError, phase, clicks,
                  compareVars >>

\* one attempt of a case with a retry loop (click, type, waitForSelector,
\* waitForXPath): the primitive, and the catch block when it throws
ActionAttempt ==
  /\ pc = "runActions"
  /\ actIdx <= Len(actions)
  /\ LET action == actions[actIdx]
     IN  /\ HasRetryLoop(action.type)
         /\ phase = "attempt"
         /\ executed' = Append(executed, actIdx)
         /\ \E answer \in Answers :
              IF answer = "ok" /\ action.type = "click" /\ WaitsForNavigation(action)
                THEN \* page.click has succeeded: the two waits are started
                     /\ clicks' = clicks + 1
                     /\ pendingWaits' = pendingWaits \cup RaceWaits
                     /\ phase' = "race"
                     /\ lastError' = Undefined
                     /\ UNCHANGED << pc, thrown, actIdx, retries, backoffs >>
              ELSE IF answer = "ok"
                THEN /\ actIdx' = actIdx + 1
                     /\ retries' = RetryLimit
                     /\ backoffs' = 0
                     /\ lastError' = Undefined
                     /\ UNCHANGED << pc, thrown, phase, clicks, pendingWaits >>
                ELSE IF answer \in RetryMessages(action.type) /\ retries - 1 > 0
                  THEN /\ retries' = retries - 1
                       /\ lastError' = answer
                       /\ backoffs' = backoffs + 1
                       /\ UNCHANGED << pc, thrown, actIdx, phase, clicks,
                                       pendingWaits >>
                  ELSE /\ retries' = IF answer \in RetryMessages(action.type)
                                       THEN retries - 1 ELSE retries
                       /\ lastError' = answer
                       /\ Throw(answer)
                       /\ UNCHANGED << actIdx, backoffs, phase, clicks,
                                       pendingWaits >>
  /\ UNCHANGED << config, stats, nameVars, navigations, mainVars, pageUrl,
                  captureVars, caller, actions, selectCalls, compareVars >>

\* Promise.race of the two waits of a click with waitForNavigation: the first
\* wait to settle settles the race, fulfilled or rejected (a rejection is
\* caught and dropped); the other wait stays pending. The URL wait is
\* fulfilled only by a change of URL.
ClickRace ==
  /\ pc = "runActions"
  /\ phase = "race"
  /\ \E first \in RaceWaits, how \in { "fulfilled", "rejected" } :
       /\ first \in pendingWaits
       /\ (first = "url" /\ how = "fulfilled") => pageUrl # ClickTarget
       /\ pendingWaits' = pendingWaits \ { first }
       /\ pageUrl' = IF first = "url" /\ how = "fulfilled"
                        THEN ClickTarget ELSE pageUrl
  /\ phase' = "settle"
  /\ UNCHANGED << config, stats, nameVars, navigations, mainVars, pc, thrown,
                  captureVars, caller, actions, actIdx, retries, executed,
                  backoffs, lastError, selectCalls, clicks, compareVars >>

\* page.waitForTimeout(500) after the race, still inside the try block: a
\* rejection reaches the catch block of the retry loop
ClickSettle ==
  /\ pc = "runActions"
  /\ phase = "settle"
  /\ LET action == actions[actIdx]
     IN  \E answer \in { "ok", "closed", "other" } :
           IF answer = "ok"
             THEN /\ actIdx' = actIdx + 1
                  /\ retries' = RetryLimit
                  /\ backoffs' = 0
                  /\ clicks' = 0
                  /\ lastError' = Undefined
                  /\ phase' = "attempt"
                  /\ UNCHANGED << pc, thrown >>
             ELSE IF answer \in RetryMessages(action.type) /\ retries - 1 > 0
               THEN /\ retries' = retries - 1
                    /\ lastError' = answer
                    /\ backoffs' = backoffs + 1
                    /\ phase' = "attempt"
                    /\ UNCHANGED << pc, thrown, actIdx, clicks >>
               ELSE /\ retries' = IF answer \in RetryMessages(action.type)
                                    THEN retries - 1 ELSE retries
                    /\ lastError' = answer
                    /\ Throw(answer)
                    /\ UNCHANGED << actIdx, backoffs, phase, clicks >>
  /\ UNCHANGED << config, stats, nameVars, pendingWaits, navigations, mainVars,
                  pageUrl, captureVars, caller, actions, executed, selectCalls,
                  compareVars >>

\* a wait that lost its race settles on its own, at the latest when its
\* timeout expires, whatever main is doing by then
WaitSettles ==
  /\ \E wait \in pendingWaits : pendingWaits' = pendingWaits \ { wait }
  /\ phase # "race"
  /\ UNCHANGED << config, stats, nameVars, navigations, mainVars, pc, thrown,
                  pageUrl, captureVars, actionVars, compareVars >>

\* --------------------------------------------------------- compareImages
Warning(kind, name, path, design, screenshot) ==
  [kind |-> kind, name |-> name, path |-> path, design |-> design,
   screenshot |-> screenshot]

Dims(image) == << image.width, image.height >>

\* loadPng(entry.screenshotPath): what the file at that path holds
LoadScreenshot(path) == (CHOOSE f \in screenshots : f[1] = path)[2]

\* faulty variant: an outcome matches when its percentage reads 0.00
ComparisonOutcomeOnPercentage(name, diffPixels, diffPercent, isFailure) ==
  [name |-> name, diffPixels |-> diffPixels, diffPercentage |-> diffPercent,
   match |-> diffPercent = 0, failure |-> isFailure]

\* the record pushed to comparisonResults for a compared entry
ComparisonOutcome(name, diffPixels, diffPercent, isFailure) ==
  IF diffPixels > 0
    THEN [name |-> name, diffPixels |-> diffPixels,
          diffPercentage |-> diffPercent, match |-> FALSE, failure |-> isFailure]
    ELSE [name |-> name, diffPixels |-> 0, diffPercentage |-> 0,
          match |-> TRUE, failure |-> FALSE]

\* one turn of the loop of compareImages
CompareStep ==
  /\ pc = "compare"
  /\ cmpIdx <= Len(results)
  /\ LET entry == results[cmpIdx]
         designPath == entry.designImage
     IN  IF ~HasDesignImage(entry)
           THEN /\ warnings' = Append(warnings,
                       Warning("No designImage", entry.name, Undefined, <<0, 0>>, <<0, 0>>))
                /\ cmpIdx' = cmpIdx + 1
                /\ UNCHANGED << pc, thrown, mismatches, failures, comparisonResults,
                                diffFiles, diffCalls >>
         ELSE IF ~ExistsSync(designPath)
           THEN /\ warnings' = Append(warnings,
                       Warning("Design image missing", entry.name, designPath, <<0, 0>>, <<0, 0>>))
                /\ cmpIdx' = cmpIdx + 1
                /\ UNCHANGED << pc, thrown, mismatches, failures, comparisonResults,
                                diffFiles, diffCalls >>
         ELSE IF designPath \notin DOMAIN DesignFiles
           THEN \* loadPng(designPath) rejects: no such file
                /\ Throw("ENOENT")
                /\ UNCHANGED compareVars
         ELSE
           LET screenshot == LoadScreenshot(entry.screenshotPath)
               loaded == DesignFiles[designPath]
               mismatch == screenshot.width # loaded.width \/ screenshot.height # loaded.height
               design == IF mismatch
                           THEN ResizeImage(loaded, screenshot.width, screenshot.height)
                           ELSE loaded
               diff == [width |-> design.width, height |-> design.height]
               totalPixels == design.width * design.height
               warned == IF mismatch
                           THEN Append(warnings,
                                  Warning("Size mismatch", entry.name, designPath,
                                          Dims(loaded), Dims(screenshot)))
                           ELSE warnings
           IN  /\ warnings' = warned
               /\ diffCalls' = Append(diffCalls,
                     [name |-> entry.name, design |-> Dims(design),
                      screenshot |-> Dims(screenshot)])
               /\ IF ~PixelmatchAccepts(design, screenshot, diff)
                    THEN /\ Throw("Image sizes do not match")
                         /\ UNCHANGED << cmpIdx, mismatches, failures,
                                         comparisonResults, diffFiles >>
                    ELSE \E diffPixels \in { n \in PixelDiffs(totalPixels) : n <= totalPixels } :
                      LET diffPercent == DiffPercentage(diffPixels, totalPixels)
                          isFailure == IsFailure(diffPercent, config.failureThreshold)
                      IN  /\ diffFiles' = diffFiles \cup { entry.name }
                          /\ IF diffPixels > 0
                               THEN /\ mismatches' = mismatches + 1
                                    /\ failures' = IF isFailure THEN failures + 1 ELSE failures
                               ELSE UNCHANGED << mismatches, failures >>
                          /\ comparisonResults' = Append(comparisonResults,
                                ComparisonOutcome(entry.name, diffPixels, diffPercent,
                                                  isFailure))
                          /\ cmpIdx' = cmpIdx + 1
                          /\ UNCHANGED << pc, thrown >>
  /\ UNCHANGED << config, stats, nameVars, pendingWaits, navigations, mainVars, pageUrl, captureVars, actionVars >>

\* the loop is over: compareImages returns its result to main
CompareEnd ==
  /\ pc = "compare"
  /\ cmpIdx > Len(results)
  /\ pc' = "summary"
  /\ UNCHANGED << config, stats, nameVars, pendingWaits, navigations, mainVars, thrown, pageUrl, captureVars, actionVars,
                  compareVars >>

\* ------------------------------------------------------- main, continued
\* the summary, and the verdict written to exitCode
Summary ==
  /\ pc = "summary"
  /\ IF Len(comparisonResults) > 0
       THEN \E avgDiff \in AvgDiff(comparisonResults) :
              stats' = << avgDiff, MaxDiff(comparisonResults) >>
       ELSE UNCHANGED stats
  /\ exitCode' = ExitCodeFor(failures, mismatches)
  /\ pc' = "finally"
  /\ UNCHANGED << config, nameVars, pendingWaits, navigations, browserOpen, processExitCode, thrown, pageUrl,
                  captureVars, actionVars, compareVars >>

\* faulty variant: the browser is closed at the end of the try block, so
\* only when nothing was thrown
FinallyOnSuccess ==
  /\ pc = "finally"
  /\ browserOpen' = (thrown # Undefined)
  /\ pc' = IF thrown = Undefined THEN "exit" ELSE "catch"
  /\ UNCHANGED << config, stats, nameVars, pendingWaits, navigations, exitCode, processExitCode, thrown,
                  pageUrl, captureVars, actionVars, compareVars >>

\* finally { await browser.close(); }
Finally ==
  /\ pc = "finally"
  /\ browserOpen' = FALSE
  /\ pc' = IF thrown = Undefined THEN "exit" ELSE "catch"
  /\ UNCHANGED << config, stats, nameVars, pendingWaits, navigations, exitCode, processExitCode, thrown, pageUrl,
                  captureVars, actionVars, compareVars >>

\* process.exitCode = exitCode
Exit ==
  /\ pc = "exit"
  /\ processExitCode' = exitCode
  /\ pc' = "done"
  /\ UNCHANGED << config, stats, nameVars, pendingWaits, navigations, browserOpen, exitCode, thrown, pageUrl,
                  captureVars, actionVars, compareVars >>

\* faulty variant: the rejection of main is logged and the exit code kept
CatchQuietly ==
  /\ pc = "catch"
  /\ processExitCode' = exitCode
  /\ pc' = "done"
  /\ UNCHANGED << config, stats, nameVars, pendingWaits, navigations, browserOpen, exitCode, thrown,
                  pageUrl, captureVars, actionVars, compareVars >>

\* main().catch: process.exitCode = 1
Catch ==
  /\ pc = "catch"
  /\ processExitCode' = 1
  /\ pc' = "done"
  /\ UNCHANGED << config, stats, nameVars, pendingWaits, navigations, browserOpen, exitCode, thrown, pageUrl,
                  captureVars, actionVars, compareVars >>

Next ==
  \/ Launch
  \/ CaptureBegin
  \/ ViewportBegin
  \/ CaptureEnd
  \/ PageBegin
  \/ PagesEnd
  \/ Screenshot
  \/ RunActionsReturn
  \/ ActionRejected
  \/ ActionSimple
  \/ ActionSelect
  \/ ActionAttempt
  \/ CompareStep
  \/ CompareEnd
  \/ Summary
  \/ Finally
  \/ Exit
  \/ Catch

Spec == Init /\ [][Next]_vars

\* --------------------------------------------------- runs to completion
\* the configurations of at most two viewports and one page: every way main
\* can end (PASS, FAIL, an error in the global actions or in a capture)
FairConfigs ==
  { c \in Configs : Len(c.viewports) <= 2 /\ Len(c.pages) <= 1 }

InitFair ==
  /\ config \in FairConfigs
  /\ pc = "main"
  /\ Fresh
  /\ NoNames

\* the same program, run to its end: main is an async function whose every
\* await settles (each browser wait carries a timeout), so a step that is
\* possible is eventually taken
FairSpec == InitFair /\ [][Next]_vars /\ WF_vars(Next)

\* --------------------------------------------- runs of the interpreter
InitActions ==
  /\ config \in ActionConfigs
  /\ pc = "main"
  /\ Fresh
  /\ NoNames

SpecActions == InitActions /\ [][Next]_vars

\* ------------------------------------- runs with navigation-aware clicks
InitClicks ==
  /\ config \in ClickConfigs
  /\ pc = "main"
  /\ Fresh
  /\ NoNames

NextClicks == Next \/ ClickRace \/ ClickSettle \/ WaitSettles

SpecClicks == InitClicks /\ [][NextClicks]_vars

\* ------------------------------------ runs with namesake pages
\* a page whose name differs from the Cart page's in the case of a letter
NamesakePage ==
  [name |-> <<"c","a","r","t">>, path |-> "/basket",
   designImages |-> NoMapping, designImage |-> "designs/dashboard.png",
   actions |-> <<>>]

\* config.pages: lists of distinct entries with the namesake among them
NamesakeLists ==
  { list \in DistinctSeqs(PageSpecs \cup { NamesakePage }, MaxPages) :
      NamesakePage \in Range(list) }

NamesakeConfigs ==
  [viewports : ViewportLists, pages : NamesakeLists,
   globalActions : GlobalActionLists, failureThreshold : FailureThresholds]

InitNamesakes ==
  /\ config \in NamesakeConfigs
  /\ pc = "main"
  /\ Fresh
  /\ NoNames

SpecNamesakes == InitNamesakes /\ [][Next]_vars

\* ------------------------------------------------- runs of normalizeName
\* `${entry.name}-${viewport.name}` is normalized
ComposeName ==
  /\ pc = "name"
  /\ normalized' = normalizeName(pageName \o <<"-">> \o viewportName)
  /\ pc' = "renormalize"
  /\ UNCHANGED << config, stats, pendingWaits, navigations, mainVars, thrown,
                  pageUrl, captureVars, actionVars, compareVars, pageName,
                  viewportName,
                  renormalized >>

\* the result is normalized once more
Renormalize ==
  /\ pc = "renormalize"
  /\ renormalized' = normalizeName(normalized)
  /\ pc' = "named"
  /\ UNCHANGED << config, stats, pendingWaits, navigations, mainVars, thrown,
                  pageUrl, captureVars, actionVars, compareVars, pageName,
                  viewportName,
                  normalized >>

InitNames ==
  /\ config = CHOOSE c \in Configs : c.pages = <<>>
  /\ pc = "name"
  /\ Fresh
  /\ pageName \in Names(MaxNameLen) \cup { q.name : q \in PageSpecs }
  /\ viewportName \in Names(MaxNameLen) \cup ViewportNames
  /\ normalized = <<>> /\ renormalized = <<>>

NextNames == ComposeName \/ Renormalize

SpecNames == InitNames /\ [][NextNames]_vars

\* ------------------------------------------------------------ well-formed
TypeOK ==
  /\ pc \in { "main", "capture", "viewport", "page", "runActions", "screenshot",
               "compare", "summary", "finally", "exit", "catch", "done",
               "name", "renormalize", "named" }
  /\ phase \in { "attempt", "race", "settle" }
  /\ pendingWaits \subseteq RaceWaits
  /\ exitCode \in { 0, 1 } /\ processExitCode \in { 0, 1 }
  /\ retries \in 0..RetryLimit

\* ---------------------------------------------------- names for the claims
Outcomes == DOMAIN comparisonResults

\* the entries compareImages has been through
Processed == 1..(cmpIdx - 1)

NumPages == Len(config.pages)

\* the page and the viewport the i-th capture was made of
EntryPage(i) == config.pages[((i - 1) % NumPages) + 1]
EntryViewport(i) == config.viewports[((i - 1) \div NumPages) + 1]

\* the reference of the i-th capture is present and its file exists
Comparable(i) ==
  /\ results[i].designImage \notin { Undefined, "" }
  /\ results[i].designImage \in DOMAIN DesignFiles

WarningsFor(name) == { w \in DOMAIN warnings : warnings[w].name = name }
OutcomesFor(name) == { o \in Outcomes : comparisonResults[o].name = name }

\* the run is over and nothing was thrown
Completed == pc = "done" /\ thrown = Undefined

\* captureScreenshots has returned
Captured == cmpIdx >= 1

\* ------------------------------------------------------------------ claims
\* C1: every outcome whose 2-decimal diffPercentage is greater than
\* config.failureThreshold is classified failure, and a run with such an
\* outcome ends with exit code 1.
AboveThresholdFails ==
  /\ \A o \in Outcomes :
       comparisonResults[o].diffPercentage > config.failureThreshold
         => comparisonResults[o].failure /\ ~comparisonResults[o].match
  /\ (pc = "done" /\ \E o \in Outcomes :
         comparisonResults[o].diffPercentage > config.failureThreshold)
       => processExitCode = 1

AboveThresholdFailsWitness ==
  /\ Completed
  /\ processExitCode = 1
  /\ \E o \in Outcomes :
       comparisonResults[o].diffPercentage > config.failureThreshold

\* C2: the verdict is FAIL exactly when some outcome is classified failure,
\* whatever the acceptable differences and the warnings; the process exit code
\* is 0 exactly when the verdict is PASS and nothing was thrown, and 1 otherwise.
VerdictIffFailure ==
  /\ (pc \in { "finally", "exit", "done" } /\ thrown = Undefined)
       => (exitCode = 1 <=> \E o \in Outcomes : comparisonResults[o].failure)
  /\ pc = "done"
       => /\ processExitCode = 0 <=>
               (thrown = Undefined /\ \A o \in Outcomes : ~comparisonResults[o].failure)
          /\ processExitCode = 1 <=>
               (thrown # Undefined \/ \E o \in Outcomes : comparisonResults[o].failure)

VerdictIffFailureWitness ==
  /\ Completed
  /\ processExitCode = 0
  /\ warnings # <<>>
  /\ \E o \in Outcomes :
       ~comparisonResults[o].match /\ ~comparisonResults[o].failure

\* C3: an outcome with diffPixels = 0 is classified match and no diff artifact
\* is written for it; a diff artifact exists only for outcomes with
\* diffPixels > 0.
MatchWritesNoDiff ==
  \A o \in Outcomes :
    comparisonResults[o].diffPixels = 0
      => /\ comparisonResults[o].match
         /\ comparisonResults[o].name \notin diffFiles

\* C4: an outcome with 0 < diffPercentage <= failureThreshold, equality
\* included, is acceptable: neither match nor failure, and not counted among
\* the failures.
WithinThresholdAcceptable ==
  /\ \A o \in Outcomes :
       (0 < comparisonResults[o].diffPercentage
          /\ comparisonResults[o].diffPercentage <= config.failureThreshold)
         => ~comparisonResults[o].match /\ ~comparisonResults[o].failure
  /\ failures =
       Cardinality({ o \in Outcomes :
         comparisonResults[o].diffPercentage > config.failureThreshold })

WithinThresholdAcceptableWitness ==
  \E o \in Outcomes :
    /\ comparisonResults[o].diffPercentage = config.failureThreshold
    /\ ~comparisonResults[o].match
    /\ ~comparisonResults[o].failure
    /\ failures = 0

OmittedByMapping(i) ==
  /\ \E v \in ViewportNames : EntryPage(i).designImages[v] # Undefined
  /\ EntryPage(i).designImages[EntryViewport(i).name] = Undefined
  /\ EntryPage(i).designImage = Undefined

\* C6 as stated: a capture whose viewport the page's mapping omits is skipped
\* with no outcome, no diff artifact and no warning.
OmissionIsSilent ==
  \A i \in Processed :
    OmittedByMapping(i)
      => /\ OutcomesFor(results[i].name) = {}
         /\ results[i].name \notin diffFiles
         /\ WarningsFor(results[i].name) = {}

\* C6 as amended: a capture whose viewport the page's mapping omits is taken,
\* and skipped with no outcome, no diff artifact and exactly one warning, the
\* 'No designImage' warning of a capture with no reference at all.
OmissionWarns ==
  \A i \in Processed :
    OmittedByMapping(i)
      => /\ \E f \in screenshots : f[1] = results[i].screenshotPath
         /\ OutcomesFor(results[i].name) = {}
         /\ results[i].name \notin diffFiles
         /\ Cardinality(WarningsFor(results[i].name)) = 1
         /\ \A w \in WarningsFor(results[i].name) :
              warnings[w].kind = "No designImage"

OmissionWarnsWitness ==
  /\ Completed
  /\ \E i \in Processed :
       /\ OmittedByMapping(i)
       /\ WarningsFor(results[i].name) # {}

\* the size of the screenshot of the i-th capture differs from its reference's
SizesDiffer(i) ==
  /\ Comparable(i)
  /\ Dims(DesignFiles[results[i].designImage]) # Dims(ScreenshotImage(EntryViewport(i)))

\* C7: when reference and screenshot differ in size the comparison is not
\* aborted: one warning names both sizes, pixelmatch is called with the
\* reference at exactly the screenshot's size, and an outcome is produced.
SizeMismatchIsReconciled ==
  Captured =>
    /\ thrown = Undefined
    /\ \A c \in DOMAIN diffCalls : diffCalls[c].design = diffCalls[c].screenshot
    /\ \A i \in Processed :
         SizesDiffer(i)
           => /\ Cardinality(WarningsFor(results[i].name)) = 1
              /\ \A w \in WarningsFor(results[i].name) :
                   /\ warnings[w].kind = "Size mismatch"
                   /\ warnings[w].design = Dims(DesignFiles[results[i].designImage])
                   /\ warnings[w].screenshot = Dims(ScreenshotImage(EntryViewport(i)))
              /\ \E c \in DOMAIN diffCalls :
                   /\ diffCalls[c].name = results[i].name
                   /\ diffCalls[c].design = Dims(ScreenshotImage(EntryViewport(i)))
              /\ Cardinality(OutcomesFor(results[i].name)) = 1

SizeMismatchIsReconciledWitness ==
  \E i \in Processed :
    /\ SizesDiffer(i)
    /\ OutcomesFor(results[i].name) # {}
    /\ WarningsFor(results[i].name) # {}

\* the composite name of each (page name, viewport name) pair
CompositeName ==
  [p \in { q.name : q \in PageSpecs }, v \in ViewportNames |->
     normalizeName(p \o <<"-">> \o v)]

\* C8: a captureScreenshots that returns has one result and one screenshot
\* per (viewport, page) pair, viewport by viewport and page by page; while a
\* page is being captured every earlier pair is finished and no later one
\* has begun.
OneCapturePerPair ==
  /\ Captured =>
       /\ Len(results) = Len(config.viewports) * NumPages
       /\ shotCount = Len(config.viewports) * NumPages
  /\ \A i \in DOMAIN results :
       /\ results[i].viewport = EntryViewport(i).name
       /\ results[i].name = CompositeName[EntryPage(i).name, EntryViewport(i).name]
       /\ results[i].url = EntryPage(i).path
  /\ shotCount = Len(results)
  /\ (pc \in { "page", "screenshot" } \/ (pc = "runActions" /\ caller = "page"))
       => Len(results) = (vpIdx - 1) * NumPages + (pgIdx - 1)

OneCapturePerPairWitness ==
  /\ Captured
  /\ Len(config.viewports) = 2
  /\ NumPages = 2
  /\ Len(results) = 4
  /\ results[3].viewport = ViewportPool[2].name

\* C9: the global action list is run exactly once in a run: in the first
\* viewport's turn, with that viewport's size applied and before any page is
\* captured, and in no later viewport's turn.
GlobalActionsOnce ==
  /\ [](globalRuns <= 1)
  /\ []((pc \in { "page", "screenshot" } \/ shotCount > 0 \/ vpIdx > 1)
         => globalRuns = 1)
  /\ [][globalRuns' # globalRuns
         => /\ globalRuns = 0
            /\ vpIdx = 1
            /\ viewportSize' = << config.viewports[1].width, config.viewports[1].height >>
            /\ shotCount = 0
            /\ results = <<>>
            /\ pc' = "runActions"
            /\ actions' = config.globalActions]_vars

GlobalActionsOnceWitness ==
  /\ vpIdx = 2
  /\ pc = "page"
  /\ globalRuns = 1
  /\ config.globalActions # <<>>
  /\ shotCount > 0

\* an action runActions has no case for, or one without a type
Unrecognized(action) == action.type \notin SupportedTypes

\* C10: when runActions reaches an action of an unrecognized type, or without
\* a type, it throws at that action, and no action after it is executed.
UnrecognizedActionHalts ==
  /\ [][(pc = "runActions" /\ actIdx <= Len(actions) /\ Unrecognized(actions[actIdx]))
         => /\ thrown' # Undefined
            /\ pc' = "finally"
            /\ executed' = executed
            /\ actIdx' = actIdx]_vars
  /\ [][(pc \in { "finally", "catch", "exit", "done" })
         => (executed' = executed /\ pc' # "runActions")]_vars
  /\ [](\A k \in Range(executed) : k <= actIdx)

UnrecognizedActionHaltsWitness ==
  /\ pc = "done"
  /\ thrown = "Unsupported action type"
  /\ executed # <<>>
  /\ actIdx < Len(actions)
  /\ \A k \in Range(executed) : k < actIdx

\* the messages of the errors runActions throws for an action it cannot run
ConfigErrors ==
  { "Action is missing a type.", "Unsupported action type",
    "Select action missing value(s)" }

\* the captures that precede the page being captured
CapturesBefore == (vpIdx - 1) * NumPages + (pgIdx - 1)

\* C11 as stated: a run that fails on a configuration error in an action has
\* executed no browser action and taken no screenshot before it fails.
ConfigErrorBeforeCapture ==
  thrown \in ConfigErrors
    => (executed = <<>> /\ shotCount = 0 /\ pageUrl = BlankUrl)

\* C11, amended: a configuration error in an action is thrown when runActions
\* reaches that action and not before: the actions before it in its list have
\* all been executed and every earlier page has been captured; after it
\* nothing is executed, captured or compared, and the exit code is 1.
ConfigErrorHaltsWhereReached ==
  /\ [][(pc = "runActions" /\ actIdx <= Len(actions))
         => LET action == actions[actIdx]
            IN  /\ action.type = Undefined
                     => thrown' = "Action is missing a type."
                /\ (action.type # Undefined /\ Unrecognized(action))
                     => thrown' = "Unsupported action type"
                /\ (action.type = "select" /\ action.values = NoArray
                       /\ action.value = Undefined)
                     => thrown' = "Select action missing value(s)"]_vars
  /\ [](thrown \in ConfigErrors
         => /\ pc \in { "finally", "catch", "done" }
            /\ actIdx \in DOMAIN actions
            /\ Range(executed) = 1..(actIdx - 1)
            /\ shotCount = Len(results)
            /\ shotCount = IF caller = "global" THEN 0 ELSE CapturesBefore
            /\ cmpIdx = 0 /\ comparisonResults = <<>>
            /\ (pc = "done" => processExitCode = 1))
  /\ [][(thrown \in ConfigErrors)
         => (executed' = executed /\ shotCount' = shotCount
               /\ pageUrl' = pageUrl /\ cmpIdx' = cmpIdx)]_vars

ConfigErrorHaltsWhereReachedWitness ==
  /\ pc = "done"
  /\ thrown = "Select action missing value(s)"
  /\ actions[actIdx] = SelectNone
  /\ caller = "page"
  /\ executed # <<>>
  /\ shotCount = 1
  /\ processExitCode = 1

\* C12: runActions invokes the primitives of a list in list order, the next
\* action only once the previous one has completed; the first error that no
\* retry recovers leaves runActions at that action, and no action of the list
\* is executed after it.
InOrderUntilFirstError ==
  /\ [][(executed' # executed /\ executed' # <<>>)
         => /\ pc = "runActions"
            /\ executed' = Append(executed, actIdx)
            /\ Range(executed) \in { 1..(actIdx - 1), 1..actIdx }]_vars
  /\ [][(pc = "runActions" /\ pc' = "runActions" /\ actIdx' # actIdx)
         => /\ actIdx' = actIdx + 1
            /\ thrown' = Undefined
            /\ executed' = Append(executed, actIdx)]_vars
  /\ [][(pc = "runActions" /\ thrown' # Undefined)
         => (pc' = "finally" /\ actIdx' = actIdx /\ actIdx <= Len(actions))]_vars
  /\ [][(thrown # Undefined)
         => (executed' = executed /\ actIdx' = actIdx /\ thrown' = thrown
               /\ pc' # "runActions")]_vars

InOrderUntilFirstErrorWitness ==
  /\ pc = "done"
  /\ thrown = "closed"
  /\ Len(actions) = 2
  /\ actions[2].type = "goto"
  /\ executed = << 1, 1, 1 >>

\* the attempts the log holds of the action at position i
AttemptsIn(log, i) == Cardinality({ k \in DOMAIN log : log[k] = i })

\* the messages of a torn-down session and of an element not yet present
Transient == { "closed", "notFound" }

WaitPolicy(retried) ==
  (pc = "runActions" /\ actIdx <= Len(actions)
        /\ actions[actIdx].type \in { "waitForSelector", "waitForXPath" })
      => LET n == AttemptsIn(executed', actIdx)
         IN  /\ executed' = Append(executed, actIdx)
             /\ n <= 3
             /\ lastError' = Undefined
                  => (actIdx' = actIdx + 1 /\ thrown' = Undefined)
             /\ (lastError' \in retried /\ n < 3)
                  => /\ backoffs' = backoffs + 1
                     /\ thrown' = Undefined
                     /\ pc' = "runActions" /\ actIdx' = actIdx
             /\ (lastError' \in retried /\ n = 3)
                  => (thrown' = lastError' /\ backoffs' = backoffs)
             /\ lastError' \notin retried \cup { Undefined }
                  => (thrown' = lastError' /\ backoffs' = backoffs)

\* C14 as stated: waitForSelector and waitForXPath retry, like click and
\* type, both on a torn-down session and on an element not yet present, up
\* to three attempts with a 500ms backoff between them.
WaitsRetryLikeClick == [][WaitPolicy(Transient)]_vars

\* C14, amended: waitForSelector and waitForXPath retry on a torn-down
\* session only, up to three attempts with a 500ms backoff between them; a
\* failure with any other message, an element not yet present included,
\* throws at once.
WaitsRetryClosedOnly == [][WaitPolicy({ "closed" })]_vars

WaitsRetryClosedOnlyWitness ==
  /\ pc = "done"
  /\ Len(actions) = 2
  /\ actions[1].type = "waitForSelector"
  /\ actions[2].type = "waitForXPath"
  /\ executed = << 1, 1, 2 >>
  /\ backoffs = 0
  /\ thrown = "notFound"

\* C15: once a step of a page's capture has thrown, no page or viewport is
\* captured after it, compareImages is never entered, so that no outcome,
\* warning or diff exists for the captures already made, and the process
\* ends with exit code 1.
CaptureFailureAborts ==
  /\ [](thrown # Undefined
         => /\ pc \in { "finally", "catch", "done" }
            /\ cmpIdx = 0
            /\ comparisonResults = <<>> /\ warnings = <<>>
            /\ diffFiles = {} /\ diffCalls = <<>>
            /\ (pc = "done" => processExitCode = 1))
  /\ [][(thrown # Undefined)
         => /\ thrown' = thrown
            /\ results' = results /\ screenshots' = screenshots
            /\ shotCount' = shotCount /\ pageUrl' = pageUrl
            /\ vpIdx' = vpIdx /\ pgIdx' = pgIdx]_vars

CaptureFailureAbortsWitness ==
  /\ pc = "done"
  /\ thrown = "other"
  /\ caller = "page"
  /\ actions = <<>>
  /\ shotCount >= 1
  /\ shotCount < Len(config.viewports) * NumPages
  /\ vpIdx < Len(config.viewports)
  /\ \E f \in DOMAIN DesignFiles : \E i \in DOMAIN results :
       results[i].designImage = f
  /\ processExitCode = 1

\* C16: a browser that has been launched is eventually closed, and the run
\* never ends with it open, whether main returns PASS or FAIL or an error
\* was thrown on the way.
BrowserEventuallyClosed ==
  /\ browserOpen ~> ~browserOpen
  /\ [](pc \in { "exit", "catch", "done" } => ~browserOpen)

BrowserEventuallyClosedWitness ==
  /\ pc = "done"
  /\ ~browserOpen
  /\ thrown # Undefined
  /\ caller = "global"
  /\ executed # <<>>

\* the action carries a list of values or a single value
Supplied(action) == action.values # NoArray \/ action.value # Undefined

\* C17: a select action that carries a list of values or a single value
\* invokes page.selectOption, with the list when it carries one; a select
\* action throws 'Select action missing value(s)' without invoking it exactly
\* when it carries neither.
SelectDispatch ==
  [][(pc = "runActions" /\ actIdx <= Len(actions)
        /\ actions[actIdx].type = "select")
      => LET action == actions[actIdx]
         IN  /\ Supplied(action)
                  => /\ executed' = Append(executed, actIdx)
                     /\ selectCalls' = Append(selectCalls,
                           [index |-> actIdx,
                            by |-> IF action.values # NoArray
                                     THEN "values" ELSE "value"])
             /\ ~Supplied(action)
                  => /\ thrown' = "Select action missing value(s)"
                     /\ executed' = executed
                     /\ selectCalls' = selectCalls
             /\ thrown' = "Select action missing value(s)"
                  => ~Supplied(action)]_vars

\* C18: when there are outcomes, the average main prints is the mean of the
\* 2-decimal diffPercentage of all of them, matches included, to the nearest
\* hundredth, and the maximum is the largest of them; a run whose outcomes are
\* 0.00% (acceptable) and 79.30% (failure) prints 39.65% and 79.30%, and ends
\* FAIL with exit code 1.
SummaryStatistics ==
  LET n == Len(comparisonResults)
      total == TotalDiff(comparisonResults)
      percentages == { comparisonResults[o].diffPercentage : o \in Outcomes }
  IN  /\ (pc \in { "finally", "exit", "done" } /\ thrown = Undefined)
           => (stats # <<>> <=> n > 0)
      /\ stats # <<>>
           => /\ 2 * (n * stats[1] - total) <= n
              /\ 2 * (total - n * stats[1]) <= n
              /\ stats[2] \in percentages
              /\ \A p \in percentages : p <= stats[2]
      /\ (stats # <<>> /\ n = 2 /\ percentages = { 0, 7930 })
           => /\ stats = << 3965, 7930 >>
              /\ exitCode = 1
              /\ (pc = "done" => processExitCode = 1)

SummaryStatisticsWitness ==
  /\ pc = "done"
  /\ Len(comparisonResults) = 2
  /\ comparisonResults[1].diffPercentage = 0
  /\ ~comparisonResults[1].match /\ ~comparisonResults[1].failure
  /\ comparisonResults[2].diffPercentage = 7930
  /\ comparisonResults[2].failure
  /\ stats = << 3965, 7930 >>
  /\ processExitCode = 1

\* C19: the design reference of a capture is the entry the page's mapping
\* has for the capture's viewport whenever it has one, a legacy reference
\* notwithstanding; the legacy reference is used only when the mapping has no
\* entry for that viewport.
MappingBeforeLegacy ==
  \A i \in DOMAIN results :
    LET entry == EntryPage(i)
        mapped == entry.designImages[EntryViewport(i).name]
    IN  /\ mapped # Undefined => results[i].designImage = mapped
        /\ mapped = Undefined => results[i].designImage = entry.designImage
        /\ (results[i].designImage # Undefined
              /\ results[i].designImage = entry.designImage)
             => (mapped = Undefined \/ mapped = entry.designImage)

MappingBeforeLegacyWitness ==
  /\ Captured
  /\ \E i \in DOMAIN results :
       /\ EntryPage(i).designImage = "designs/dashboard.png"
       /\ EntryPage(i).designImages[EntryViewport(i).name] = "designs/cart-mobile.png"
       /\ results[i].designImage = "designs/cart-mobile.png"
  /\ \E i \in DOMAIN results :
       /\ EntryPage(i).designImages[EntryViewport(i).name] = Undefined
       /\ results[i].designImage = "designs/dashboard.png"

\* the letters a to z in lower case and the digits
LowerAlnum == Range(LowerChars) \cup Range(DigitChars)

\* C20: the normalized composite name of a page and a viewport holds only
\* lower-case letters, digits and hyphens, no two hyphens in a row and none
\* at either end; normalizing it again gives it back; the page 'Dashboard'
\* and the viewport 'desktop' give 'dashboard-desktop'.
NormalizedNameShape ==
  /\ pc \in { "renormalize", "named" }
       => /\ \A i \in DOMAIN normalized : normalized[i] \in LowerAlnum \cup { "-" }
          /\ \A i \in DOMAIN normalized :
               (i > 1 /\ normalized[i] = "-") => normalized[i - 1] # "-"
          /\ normalized # <<>>
               => (normalized[1] # "-" /\ normalized[Len(normalized)] # "-")
  /\ pc = "named" => renormalized = normalized
  /\ (pc \in { "renormalize", "named" }
        /\ pageName = <<"D","a","s","h","b","o","a","r","d">>
        /\ viewportName = <<"d","e","s","k","t","o","p">>)
       => normalized = <<"d","a","s","h","b","o","a","r","d","-",
                         "d","e","s","k","t","o","p">>

NormalizedNameShapeWitness ==
  /\ pc = "named"
  /\ pageName = << "-", "D" >>
  /\ viewportName = << "7", " " >>
  /\ normalized = << "d", "-", "7" >>
  /\ renormalized = normalized

\* what is left of the retry loop of the current action: the retries, and
\* within an attempt the steps still to come
LoopMeasure ==
  3 * retries + (CASE phase = "attempt" -> 2 [] phase = "race" -> 1 [] OTHER -> 0)

AtClick(waits) ==
  /\ pc = "runActions"
  /\ actIdx <= Len(actions)
  /\ actions[actIdx].type = "click"
  /\ actions[actIdx].waitForNavigation = waits

\* C22: at a click with waitForNavigation, a page.click that succeeds starts
\* the two waits; when the race is over, whichever wait settled it and
\* whether it was fulfilled or timed out, nothing is thrown and the settle
\* delay comes next; the action completes only by the settle delay. At a
\* click without waitForNavigation no wait is started and there is no settle
\* delay.
NavigationAwareClick ==
  /\ [][(AtClick(TRUE) /\ executed' # executed /\ lastError' = Undefined)
         => /\ phase' = "race"
            /\ RaceWaits \subseteq pendingWaits'
            /\ actIdx' = actIdx /\ thrown' = Undefined]_vars
  /\ [][(phase = "race" /\ phase' # "race")
         => /\ phase' = "settle"
            /\ pendingWaits' # pendingWaits
            /\ thrown' = Undefined
            /\ pc' = "runActions" /\ actIdx' = actIdx]_vars
  /\ [][(AtClick(TRUE) /\ pc' = "runActions" /\ actIdx' # actIdx)
         => (phase = "settle" /\ phase' = "attempt")]_vars
  /\ [][AtClick(FALSE)
         => (phase' = "attempt" /\ pendingWaits' \subseteq pendingWaits)]_vars
  /\ [](phase # "attempt"
         => /\ actIdx \in DOMAIN actions
            /\ actions[actIdx].type = "click"
            /\ actions[actIdx].waitForNavigation)

NavigationAwareClickWitness ==
  /\ pc = "runActions"
  /\ actIdx = 2
  /\ actions[1] = ClickAndWait
  /\ executed = << 1 >>
  /\ pageUrl # ClickTarget
  /\ pendingWaits = { "idle" }
  /\ thrown = Undefined

RECURSIVE GCD(_, _)
GCD(a, b) == IF b = 0 THEN a ELSE GCD(b, a % b)

\* p hundredths of a percent is a hundredth nearest to 100 * d / t: the
\* comparison 2 * |p * t - 10000 * d| <= t with t and 10000 reduced by their
\* common divisor, which keeps the products small
NearestHundredth(p, d, t) ==
  LET g == GCD(t, 10000)
      gap == p * (t \div g) - d * (10000 \div g)
  IN  2 * gap <= t \div g /\ 2 * (0 - gap) <= t \div g

\* C23: the diffPercentage of an outcome is 100 * diffPixels / totalPixels to
\* the nearest hundredth, and the outcome is classified on it: match exactly
\* when diffPixels is 0, whatever the percentage rounds to, and failure
\* exactly when diffPixels > 0 and the rounded percentage is greater than the
\* threshold; 17 pixels of 1,296,000 give 0.00 and, with threshold 1.0, an
\* acceptable difference.
ClassifiesOnRoundedPercentage ==
  \A o \in Outcomes :
    LET r == comparisonResults[o]
        total == diffCalls[o].design[1] * diffCalls[o].design[2]
    IN  /\ diffCalls[o].name = r.name
        /\ NearestHundredth(r.diffPercentage, r.diffPixels, total)
        /\ r.match <=> r.diffPixels = 0
        /\ r.failure <=>
             (r.diffPixels > 0 /\ r.diffPercentage > config.failureThreshold)
        /\ (r.diffPixels = 17 /\ total = 1296000)
             => /\ r.diffPercentage = 0
                /\ ~r.match
                /\ config.failureThreshold = RecommendedFailureThreshold
                     => ~r.failure

ClassifiesOnRoundedPercentageWitness ==
  /\ config.failureThreshold = RecommendedFailureThreshold
  /\ \E o \in Outcomes :
       /\ comparisonResults[o].diffPixels = 17
       /\ diffCalls[o].design = << 1440, 900 >>
       /\ comparisonResults[o].diffPercentage = 0
       /\ ~comparisonResults[o].match /\ ~comparisonResults[o].failure
  /\ \E o \in Outcomes : comparisonResults[o].diffPercentage = 7930

\* the page loop is about to capture a page
AtPageTurn == pc = "page" /\ pgIdx <= Len(config.pages)

\* C24: page.goto is issued for a page exactly when the URL the browser page
\* is at differs from the URL of the page to capture, and nowhere else; when
\* the page is already there no navigation is issued, nothing is thrown, the
\* page stays where it is and the page's own actions are run, after which
\* the screenshot is taken.
NavigatesOnlyWhenElsewhere ==
  [][ /\ (navigations' # navigations)
           => AtPageTurn /\ navigations' = navigations + 1
      /\ (AtPageTurn /\ pc' # pc)
           => /\ (navigations' = navigations + 1)
                    <=> (pageUrl # config.pages[pgIdx].path)
              /\ (pageUrl = config.pages[pgIdx].path)
                    => /\ navigations' = navigations
                       /\ pageUrl' = pageUrl
                       /\ thrown' = thrown
                       /\ pc' = "runActions" /\ caller' = "page"
                       /\ actions' = config.pages[pgIdx].actions
                       /\ actIdx' = 1
      /\ (pc = "runActions" /\ caller = "page" /\ actIdx > Len(actions)
             /\ pc' # pc)
           => pc' = "screenshot"
      /\ (pc = "screenshot" /\ pc' = "page")
           => /\ Len(results') = Len(results) + 1
              /\ navigations' = navigations ]_vars

\* a run that captured more pages than it issued navigations
NavigatesOnlyWhenElsewhereWitness ==
  /\ pc = "done" /\ thrown = Undefined
  /\ navigations >= 1
  /\ navigations < Len(results)

\* the interpreter is inside a click action with waitForNavigation that has
\* issued its click
InsideNavigationClick ==
  /\ pc = "runActions"
  /\ actIdx \in DOMAIN actions
  /\ actions[actIdx].type = "click"
  /\ WaitsForNavigation(actions[actIdx])
  /\ clicks > 0

\* C25: a wait started by an action is pending only while that action is
\* executing: when a click with waitForNavigation has returned, neither the
\* wait for a URL change nor the wait for network idle is still pending, and
\* none overlaps a later action.
NoWaitOutlivesItsAction ==
  pendingWaits # {} => InsideNavigationClick

\* C26: one click action issues at most one successful click: page.click
\* succeeds at most once for the action, and once it has succeeded no further
\* attempt of the action is made, whatever fails after it.
OneClickPerAction ==
  /\ [](clicks <= 1)
  /\ [][ (pc = "runActions" /\ clicks > 0)
            => Len(executed') <= Len(executed) ]_vars

\* C27: the (page, viewport) pairs of one run get distinct composite names:
\* no two results share a name, every capture has a screenshot file of its
\* own and every outcome a diff file of its own, none overwritten by
\* another pair's.
DistinctArtifacts ==
  /\ \A i, j \in DOMAIN results :
       i # j => /\ results[i].name # results[j].name
                /\ results[i].screenshotPath # results[j].screenshotPath
  /\ Cardinality({ f[1] : f \in screenshots }) = shotCount
  /\ Cardinality(diffFiles) = Len(comparisonResults)

\* the entries the loop skipped for want of a design image
Skipped ==
  { w \in DOMAIN warnings :
      warnings[w].kind \in { "No designImage", "Design image missing" } }

\* C28: after every turn of the comparison loop the counters agree with the
\* outcomes: failures is the number of outcomes with failure set, mismatches
\* the number of outcomes that do not match, failures <= mismatches <=
\* number of outcomes <= number of entries processed, no outcome both
\* matches and fails, and the outcomes and the skipped entries together are
\* the entries processed.
CountersAgreeWithOutcomes ==
  /\ failures = Cardinality({ o \in Outcomes : comparisonResults[o].failure })
  /\ mismatches = Cardinality({ o \in Outcomes : ~comparisonResults[o].match })
  /\ failures <= mismatches
  /\ mismatches <= Len(comparisonResults)
  /\ Len(comparisonResults) <= Cardinality(Processed)
  /\ Cardinality(Processed) <= Len(results)
  /\ \A o \in Outcomes :
       ~(comparisonResults[o].match /\ comparisonResults[o].failure)
  /\ Len(comparisonResults) + Cardinality(Skipped) = Cardinality(Processed)

\* the loop is over after a match, an acceptable difference, a failure and
\* a skipped entry
CountersAgreeWithOutcomesWitness ==
  /\ pc = "compare" /\ cmpIdx = Len(results) + 1
  /\ Cardinality(Processed) = 4
  /\ Skipped # {}
  /\ failures = 1 /\ mismatches = 2 /\ Len(comparisonResults) = 3
====
